---------------------------- MODULE Spec2Model ----------------------------
(* A model of docs/user-api/examples/python_client.py: the KrakenHashesClient  *)
(* gateway operations over one HTTP exchange each, and the polling loop of     *)
(* job_monitoring_example.                                                     *)
(*                                                                             *)
(* Conventions.  A Python Optional argument is <<>> (None) or <<v>>.  A Python *)
(* dict is a function whose domain is its set of keys.  A str that the code    *)
(* strips or joins (URLs, paths, str(int)) is a sequence of tokens, "/" and    *)
(* each digit being a token by itself.                                         *)
(* An HTTP response is a record of its status code, its raw text and the       *)
(* outcome of decoding that text as JSON.                                      *)
EXTENDS Integers, Sequences, FiniteSets, TLC

VARIABLES
    ctor,             \* the arguments __init__ was called with
    base_url,         \* self.base_url
    session_headers,  \* self.session.headers
    call,             \* the most recent gateway invocation: what it sent and how it ended
    pc,               \* job_monitoring_example: position in the polling loop
    job,              \* job_monitoring_example: the created job
    job_status,       \* job_monitoring_example: the local job_status
    poll_calls,       \* history: get_job calls the monitor has made
    polled,           \* history: the statuses the get_job polls returned, in order
    layer_calls,      \* history: get_job_layers calls made since the latest poll
    waits,            \* history: time.sleep calls made since the latest poll
    stdout            \* job_monitoring_example: the lines printed by the latest step

vars == <<ctor, base_url, session_headers, call,
          pc, job, job_status, poll_calls, polled, layer_calls, waits, stdout>>

clientVars == <<ctor, base_url, session_headers>>
monitorVars == <<pc, job, job_status, poll_calls, polled, layer_calls, waits, stdout>>

-----------------------------------------------------------------------------
(* Python values *)

None == <<>>
Some(v) == <<v>>

\* bool(x) of an Optional[str]: None and '' are falsy
TruthyStr(x) == x # None /\ x[1] # ""
\* bool(x) of an Optional[int]: None and 0 are falsy
TruthyInt(x) == x # None /\ x[1] # 0

EmptyDict == <<>>
\* d[k] = v
Put(d, k, v) == [x \in (DOMAIN d) \cup {k} |-> IF x = k THEN v ELSE d[x]]
\* if c: d[k] = v
PutIf(c, d, k, v) == IF c THEN Put(d, k, v) ELSE d
\* d.get(k, default)
Get(d, k, default) == IF k \in DOMAIN d THEN d[k] ELSE default

Slash == "/"

RECURSIVE rstrip(_)
\* s.rstrip('/')
rstrip(s) == IF s # <<>> /\ s[Len(s)] = Slash THEN rstrip(SubSeq(s, 1, Len(s) - 1)) ELSE s

RECURSIVE lstrip(_)
\* s.lstrip('/')
lstrip(s) == IF s # <<>> /\ Head(s) = Slash THEN lstrip(Tail(s)) ELSE s

Digit(d) == CASE d = 0 -> "0" [] d = 1 -> "1" [] d = 2 -> "2" [] d = 3 -> "3" [] d = 4 -> "4"
              [] d = 5 -> "5" [] d = 6 -> "6" [] d = 7 -> "7" [] d = 8 -> "8" [] d = 9 -> "9"

RECURSIVE str(_)
\* str(n) of a non-negative int
str(n) == IF n < 10 THEN <<Digit(n)>> ELSE str(n \div 10) \o <<Digit(n % 10)>>

\* k.lower() of a header name
lower(k) == CASE k = "X-User-Email" -> "x-user-email"
              [] k = "X-API-Key" -> "x-api-key"
              [] k = "Content-Type" -> "content-type"
              [] k = "Accept" -> "accept"
              [] OTHER -> k

-----------------------------------------------------------------------------
(* HTTP responses, as the requests library presents them *)

NoJson == [valid |-> FALSE, isdict |-> FALSE, v |-> EmptyDict]
JsonObject(d) == [valid |-> TRUE, isdict |-> TRUE, v |-> d]
JsonArray == [valid |-> TRUE, isdict |-> FALSE, v |-> EmptyDict]

\* no response at all: connection refused, timeout, DNS failure
NetFail == [received |-> FALSE, status_code |-> 0, text |-> "", json |-> NoJson]
Response(s, t, j) == [received |-> TRUE, status_code |-> s, text |-> t, json |-> j]

\* faulty variant: only 2xx is ok
ok_2xx(response) == 200 <= response.status_code /\ response.status_code < 300

\* Response.ok: raise_for_status() would not raise
ok(response) == ~(400 <= response.status_code /\ response.status_code < 600)

NoExc == [type |-> "", status_code |-> 0]
\* the exception of requests: a ConnectionError, or raise_for_status()'s HTTPError
ConnectionError == [type |-> "ConnectionError", status_code |-> 0]
HTTPError(response) == [type |-> "HTTPError", status_code |-> response.status_code]
JSONDecodeError == [type |-> "JSONDecodeError", status_code |-> 0]
FileNotFoundError == [type |-> "FileNotFoundError", status_code |-> 0]

\* a printed line: f"{tag}: {text}", or f"HTTP {status}: {text}"
Line(tag, status, text) == [tag |-> tag, status |-> status, text |-> text]

-----------------------------------------------------------------------------
(* KrakenHashesClient.__init__ *)

\* requests.Session().headers before the update
DefaultHeaders == [x \in {"Accept"} |-> "*/*"]

InitHeaders(email, api_key) ==
    Put(Put(Put(DefaultHeaders, "X-User-Email", email), "X-API-Key", api_key),
        "Content-Type", "application/json")

InitBaseUrl(url) == rstrip(url)

-----------------------------------------------------------------------------
(* KrakenHashesClient._request *)

\* the request session.request(method, url, **kwargs) puts on the wire
SessionRequest(method, url, kwargs) ==
    [via |-> "session", method |-> method, url |-> url, headers |-> session_headers,
     json |-> IF "json" \in DOMAIN kwargs THEN Some(kwargs.json) ELSE None,
     params |-> IF "params" \in DOMAIN kwargs THEN Some(kwargs.params) ELSE None,
     data |-> None, files |-> None]

RequestUrl(endpoint) == base_url \o <<Slash>> \o lstrip(endpoint)

\* faulty variant: the error code is not reported
RequestStderr_NoCode(response) ==
    IF response.json.valid /\ response.json.isdict
    THEN << Line("API Error", 0, Get(response.json.v, "error", "Unknown error")) >>
    ELSE << Line("HTTP", response.status_code, response.text) >>

\* what _request writes to stderr for a response that is not ok
RequestStderr(response) ==
    IF response.json.valid /\ response.json.isdict
    THEN << Line("API Error", 0, Get(response.json.v, "error", "Unknown error")),
            Line("Error Code", 0, Get(response.json.v, "code", "UNKNOWN")) >>
    ELSE << Line("HTTP", response.status_code, response.text) >>

\* faulty variant: a network failure is retried once
_request_retry(method, endpoint, kwargs, reply) ==
    LET one == SessionRequest(method, RequestUrl(endpoint), kwargs) IN
    IF ~reply.received
    THEN [sent |-> <<one, one>>, stderr |-> <<>>, exc |-> ConnectionError, response |-> reply]
    ELSE IF ~ok(reply)
    THEN [sent |-> <<one>>, stderr |-> RequestStderr(reply), exc |-> HTTPError(reply),
          response |-> reply]
    ELSE [sent |-> <<one>>, stderr |-> <<>>, exc |-> NoExc, response |-> reply]

\* _request(method, endpoint, **kwargs) against a server that answers `reply`:
\* the requests sent, the stderr lines, the exception raised (or NoExc) and the response
_request(method, endpoint, kwargs, reply) ==
    LET sent == << SessionRequest(method, RequestUrl(endpoint), kwargs) >> IN
    IF ~reply.received
    THEN [sent |-> sent, stderr |-> <<>>, exc |-> ConnectionError, response |-> reply]
    ELSE IF ~ok(reply)
    THEN [sent |-> sent, stderr |-> RequestStderr(reply), exc |-> HTTPError(reply),
          response |-> reply]
    ELSE [sent |-> sent, stderr |-> <<>>, exc |-> NoExc, response |-> reply]

\* how an invocation ends, given what _request (or the upload) did
Result(r, exc, returned, value) ==
    [sent |-> r.sent, stderr |-> r.stderr, response |-> r.response,
     exc |-> exc, returned |-> returned, value |-> value]

\* response = self._request(...); return response.json()
ReturnJson(r) ==
    IF r.exc # NoExc THEN Result(r, r.exc, FALSE, None)
    ELSE IF ~r.response.json.valid THEN Result(r, JSONDecodeError, FALSE, None)
    ELSE Result(r, NoExc, TRUE, Some(r.response.json))

\* self._request(...), the method returning None
ReturnNone(r) ==
    IF r.exc # NoExc THEN Result(r, r.exc, FALSE, None)
    ELSE Result(r, NoExc, TRUE, None)

-----------------------------------------------------------------------------
(* The inputs the operations are exercised with *)

OptStr == {None, Some(""), Some("x")}
OptBool == {None, Some(FALSE), Some(TRUE)}
OptInt == {None, Some(0), Some(12)}
OptPriority == {None, Some(0)}
Names == {"acme"}
ClientIds == {"c1"}
Ids == {7}
LayerIds == {12}
Pages == {1}
PageSizes == {20}
HashTypeIds == {0, 1000}
FilePaths == { <<Slash, "tmp", Slash, "hashes.txt">> }

StatusCodes == {200, 304, 399, 400, 599}

\* response bodies: the error envelope, partial envelopes, a payload, and bodies
\* that are not a JSON object
Bodies ==
    { [text |-> "{error:x,code:Y}", json |-> JsonObject([error |-> "x", code |-> "Y"])],
      [text |-> "{error:gone,code:NOT_FOUND}",
       json |-> JsonObject([error |-> "gone", code |-> "NOT_FOUND"])],
      [text |-> "{error:x}", json |-> JsonObject([error |-> "x"])],
      [text |-> "{id:1}", json |-> JsonObject([id |-> 1])],
      [text |-> "[]", json |-> JsonArray],
      [text |-> "<html>oops</html>", json |-> NoJson] }

Replies == {NetFail} \cup {Response(s, b.text, b.json) : s \in StatusCodes, b \in Bodies}

-----------------------------------------------------------------------------
(* Client management *)

create_client_data(name, description, domain, data_retention_months) ==
    PutIf(data_retention_months # None,
          PutIf(TruthyStr(domain),
                PutIf(TruthyStr(description), [name |-> name], "description", description[1]),
                "domain", domain[1]),
          "data_retention_months", data_retention_months[1])

create_client_call(name, description, domain, data_retention_months, reply) ==
    ReturnJson(_request("POST", <<Slash, "clients">>,
        [json |-> create_client_data(name, description, domain, data_retention_months)],
        reply))

list_clients_call(page, page_size, reply) ==
    ReturnJson(_request("GET", <<Slash, "clients">>,
        [params |-> [page |-> page, page_size |-> page_size]], reply))

get_client_call(client_id, reply) ==
    ReturnJson(_request("GET", <<Slash, "clients", Slash, client_id>>, EmptyDict, reply))

update_client_data(name, description, domain) ==
    PutIf(domain # None,
          PutIf(description # None,
                PutIf(TruthyStr(name), EmptyDict, "name", name[1]),
                "description", description[1]),
          "domain", domain[1])

update_client_call(client_id, name, description, domain, reply) ==
    ReturnJson(_request("PATCH", <<Slash, "clients", Slash, client_id>>,
        [json |-> update_client_data(name, description, domain)], reply))

delete_client_call(client_id, reply) ==
    ReturnNone(_request("DELETE", <<Slash, "clients", Slash, client_id>>, EmptyDict, reply))

-----------------------------------------------------------------------------
(* Hashlist management *)

\* faulty variant: the session headers are passed on unfiltered
create_hashlist_headers_unfiltered == session_headers

\* faulty variant: the upload builds its headers afresh
create_hashlist_headers_fresh == [k \in {"Accept"} |-> "*/*"]

\* {k: v for k, v in self.session.headers.items() if k.lower() != 'content-type'}
create_hashlist_headers ==
    [k \in {h \in DOMAIN session_headers : lower(h) # "content-type"} |-> session_headers[k]]

create_hashlist_data(name, hash_type_id, client_id) ==
    PutIf(TruthyStr(client_id),
          [name |-> name, hash_type_id |-> str(hash_type_id)],
          "client_id", client_id[1])

\* Path(file_path).name
PathName(file_path) == file_path[Len(file_path)]

\* the headers of requests.post(url, headers=headers, files=..., data=...) on the wire:
\* the library adds the multipart content type when the caller gave none
PostHeaders(headers) ==
    IF \E h \in DOMAIN headers : lower(h) = "content-type"
    THEN headers
    ELSE Put(headers, "Content-Type", "multipart/form-data")

\* what create_hashlist writes to stderr for a response that is not ok
CreateHashlistStderr(response) ==
    IF response.json.valid /\ response.json.isdict
    THEN << Line("API Error", 0, Get(response.json.v, "error", "Unknown error")) >>
    ELSE << Line("HTTP", response.status_code, response.text) >>

\* file_exists: whether open(file_path, 'rb') succeeds
create_hashlist_call(name, hash_type_id, file_path, client_id, file_exists, reply) ==
    LET headers == create_hashlist_headers
        nothing == [sent |-> <<>>, stderr |-> <<>>, response |-> NetFail]
        request == [via |-> "requests.post", method |-> "POST",
                    url |-> base_url \o <<Slash, "hashlists">>,
                    headers |-> PostHeaders(headers), json |-> None, params |-> None,
                    data |-> Some(create_hashlist_data(name, hash_type_id, client_id)),
                    files |-> Some([file |-> <<PathName(file_path), "f", "text/plain">>])]
        posted == [sent |-> <<request>>, stderr |-> <<>>, response |-> reply]
    IN  IF ~file_exists THEN Result(nothing, FileNotFoundError, FALSE, None)
        ELSE IF ~reply.received THEN Result(posted, ConnectionError, FALSE, None)
        ELSE IF ~ok(reply)
        THEN Result([posted EXCEPT !.stderr = CreateHashlistStderr(reply)],
                    HTTPError(reply), FALSE, None)
        ELSE IF ~reply.json.valid THEN Result(posted, JSONDecodeError, FALSE, None)
        ELSE Result(posted, NoExc, TRUE, Some(reply.json))

list_hashlists_params(page, page_size, client_id, search) ==
    PutIf(TruthyStr(search),
          PutIf(TruthyStr(client_id), [page |-> page, page_size |-> page_size],
                "client_id", client_id[1]),
          "search", search[1])

list_hashlists_call(page, page_size, client_id, search, reply) ==
    ReturnJson(_request("GET", <<Slash, "hashlists">>,
        [params |-> list_hashlists_params(page, page_size, client_id, search)], reply))

get_hashlist_call(hashlist_id, reply) ==
    ReturnJson(_request("GET", <<Slash, "hashlists", Slash>> \o str(hashlist_id),
                        EmptyDict, reply))

delete_hashlist_call(hashlist_id, reply) ==
    ReturnNone(_request("DELETE", <<Slash, "hashlists", Slash>> \o str(hashlist_id),
                        EmptyDict, reply))

-----------------------------------------------------------------------------
(* Agent management *)

generate_voucher_call(is_continuous, reply) ==
    ReturnJson(_request("POST", <<Slash, "agents", Slash, "vouchers">>,
        [json |-> [is_continuous |-> is_continuous]], reply))

list_agents_params(page, page_size, status) ==
    PutIf(TruthyStr(status), [page |-> page, page_size |-> page_size], "status", status[1])

list_agents_call(page, page_size, status, reply) ==
    ReturnJson(_request("GET", <<Slash, "agents">>,
        [params |-> list_agents_params(page, page_size, status)], reply))

get_agent_call(agent_id, reply) ==
    ReturnJson(_request("GET", <<Slash, "agents", Slash>> \o str(agent_id), EmptyDict, reply))

\* faulty variant: is_enabled is tested for truth, so False is dropped
update_agent_data_truthy(name, extra_parameters, is_enabled) ==
    PutIf(is_enabled # None /\ is_enabled[1],
          PutIf(extra_parameters # None,
                PutIf(TruthyStr(name), EmptyDict, "name", name[1]),
                "extra_parameters", extra_parameters[1]),
          "is_enabled", is_enabled[1])

update_agent_data(name, extra_parameters, is_enabled) ==
    PutIf(is_enabled # None,
          PutIf(extra_parameters # None,
                PutIf(TruthyStr(name), EmptyDict, "name", name[1]),
                "extra_parameters", extra_parameters[1]),
          "is_enabled", is_enabled[1])

update_agent_call(agent_id, name, extra_parameters, is_enabled, reply) ==
    ReturnJson(_request("PATCH", <<Slash, "agents", Slash>> \o str(agent_id),
        [json |-> update_agent_data(name, extra_parameters, is_enabled)], reply))

delete_agent_call(agent_id, reply) ==
    ReturnNone(_request("DELETE", <<Slash, "agents", Slash>> \o str(agent_id),
                        EmptyDict, reply))

-----------------------------------------------------------------------------
(* Job management *)

create_job_call(name, hashlist_id, preset_job_id, priority, max_agents, reply) ==
    ReturnJson(_request("POST", <<Slash, "jobs">>,
        [json |-> [name |-> name, hashlist_id |-> hashlist_id,
                   preset_job_id |-> preset_job_id, priority |-> priority,
                   max_agents |-> max_agents]], reply))

list_jobs_params(page, page_size, status, hashlist_id, client_id) ==
    PutIf(TruthyStr(client_id),
          PutIf(TruthyInt(hashlist_id),
                PutIf(TruthyStr(status), [page |-> page, page_size |-> page_size],
                      "status", status[1]),
                "hashlist_id", hashlist_id[1]),
          "client_id", client_id[1])

list_jobs_call(page, page_size, status, hashlist_id, client_id, reply) ==
    ReturnJson(_request("GET", <<Slash, "jobs">>,
        [params |-> list_jobs_params(page, page_size, status, hashlist_id, client_id)],
        reply))

get_job_call(job_id, reply) ==
    ReturnJson(_request("GET", <<Slash, "jobs", Slash>> \o str(job_id), EmptyDict, reply))

update_job_data(name, priority, max_agents) ==
    PutIf(max_agents # None,
          PutIf(priority # None,
                PutIf(TruthyStr(name), EmptyDict, "name", name[1]),
                "priority", priority[1]),
          "max_agents", max_agents[1])

update_job_call(job_id, name, priority, max_agents, reply) ==
    ReturnJson(_request("PATCH", <<Slash, "jobs", Slash>> \o str(job_id),
        [json |-> update_job_data(name, priority, max_agents)], reply))

get_job_layers_call(job_id, reply) ==
    ReturnJson(_request("GET", <<Slash, "jobs", Slash>> \o str(job_id) \o <<Slash, "layers">>,
                        EmptyDict, reply))

get_job_layer_tasks_call(job_id, layer_id, page, page_size, reply) ==
    ReturnJson(_request("GET",
        <<Slash, "jobs", Slash>> \o str(job_id) \o <<Slash, "layers", Slash>> \o str(layer_id),
        [params |-> [page |-> page, page_size |-> page_size]], reply))

-----------------------------------------------------------------------------
(* Metadata *)

\* str(enabled_only).lower()
BoolLower(b) == IF b THEN "true" ELSE "false"

list_hash_types_call(enabled_only, reply) ==
    ReturnJson(_request("GET", <<Slash, "hash-types">>,
        [params |-> [enabled_only |-> BoolLower(enabled_only)]], reply))

list_workflows_call(reply) ==
    ReturnJson(_request("GET", <<Slash, "workflows">>, EmptyDict, reply))

list_preset_jobs_call(reply) ==
    ReturnJson(_request("GET", <<Slash, "preset-jobs">>, EmptyDict, reply))

-----------------------------------------------------------------------------
(* The client as a state machine.  A method is two steps: it is invoked and    *)
(* puts its request on the wire (or fails before sending anything), then the   *)
(* exchange ends, with a response or a network failure, and the method         *)
(* returns or raises.                                                          *)

\* the constructor arguments the client is exercised with
Constructions ==
    { [base_url |-> <<"http://h", Slash, "api", Slash, "v1">>,
       email |-> "user@example.com", api_key |-> "key-1"],
      [base_url |-> <<"http://h", Slash, "api", Slash, "v1", Slash>>,
       email |-> "other@example.com", api_key |-> "key-2"] }

NoCall == [op |-> "", args |-> EmptyDict, pending |-> FALSE, sent |-> <<>>, stderr |-> <<>>,
           response |-> NetFail, exc |-> NoExc, returned |-> FALSE, value |-> None]

\* the method `op` run with arguments `a` against a server that answers `reply`
Dispatch(op, a, reply) ==
    CASE op = "create_client" ->
           create_client_call(a.name, a.description, a.domain, a.data_retention_months, reply)
      [] op = "list_clients" ->
           list_clients_call(a.page, a.page_size, reply)
      [] op = "get_client" ->
           get_client_call(a.client_id, reply)
      [] op = "update_client" ->
           update_client_call(a.client_id, a.name, a.description, a.domain, reply)
      [] op = "delete_client" ->
           delete_client_call(a.client_id, reply)
      [] op = "create_hashlist" ->
           create_hashlist_call(a.name, a.hash_type_id, a.file_path, a.client_id, a.file_exists, reply)
      [] op = "list_hashlists" ->
           list_hashlists_call(a.page, a.page_size, a.client_id, a.search, reply)
      [] op = "get_hashlist" ->
           get_hashlist_call(a.hashlist_id, reply)
      [] op = "delete_hashlist" ->
           delete_hashlist_call(a.hashlist_id, reply)
      [] op = "generate_voucher" ->
           generate_voucher_call(a.is_continuous, reply)
      [] op = "list_agents" ->
           list_agents_call(a.page, a.page_size, a.status, reply)
      [] op = "get_agent" ->
           get_agent_call(a.agent_id, reply)
      [] op = "update_agent" ->
           update_agent_call(a.agent_id, a.name, a.extra_parameters, a.is_enabled, reply)
      [] op = "delete_agent" ->
           delete_agent_call(a.agent_id, reply)
      [] op = "create_job" ->
           create_job_call(a.name, a.hashlist_id, a.preset_job_id, a.priority, a.max_agents, reply)
      [] op = "list_jobs" ->
           list_jobs_call(a.page, a.page_size, a.status, a.hashlist_id, a.client_id, reply)
      [] op = "get_job" ->
           get_job_call(a.job_id, reply)
      [] op = "update_job" ->
           update_job_call(a.job_id, a.name, a.priority, a.max_agents, reply)
      [] op = "get_job_layers" ->
           get_job_layers_call(a.job_id, reply)
      [] op = "get_job_layer_tasks" ->
           get_job_layer_tasks_call(a.job_id, a.layer_id, a.page, a.page_size, reply)
      [] op = "list_hash_types" ->
           list_hash_types_call(a.enabled_only, reply)
      [] op = "list_workflows" ->
           list_workflows_call(reply)
      [] op = "list_preset_jobs" ->
           list_preset_jobs_call(reply)

\* the method is invoked: its request is on the wire, unless it has already raised
Invoke(op, a) ==
    LET r == Dispatch(op, a, NetFail) IN
    IF r.sent = <<>>
    THEN [op |-> op, args |-> a, pending |-> FALSE] @@ r
    ELSE [op |-> op, args |-> a, pending |-> TRUE, sent |-> r.sent, stderr |-> <<>>,
          response |-> NetFail, exc |-> NoExc, returned |-> FALSE, value |-> None]

\* the exchange ends with `reply` and the method returns or raises
Finish(c, reply) ==
    [op |-> c.op, args |-> c.args, pending |-> FALSE] @@ Dispatch(c.op, c.args, reply)

\* client = KrakenHashesClient(base_url, email, api_key)
Constructed(c) ==
    /\ ctor = c
    /\ base_url = InitBaseUrl(c.base_url)
    /\ session_headers = InitHeaders(c.email, c.api_key)
    /\ call = NoCall

Init ==
    /\ \E c \in Constructions : Constructed(c)
    /\ pc = "idle"
    /\ job = EmptyDict
    /\ job_status = EmptyDict
    /\ poll_calls = 0
    /\ polled = <<>>
    /\ layer_calls = 0
    /\ waits = 0
    /\ stdout = <<>>

create_client ==
    /\ ~call.pending
    /\ \E name \in Names, description \in OptStr, domain \in OptStr, data_retention_months \in OptPriority :
         call' = Invoke("create_client",
                        [name |-> name, description |-> description, domain |-> domain, data_retention_months |-> data_retention_months])
    /\ UNCHANGED <<clientVars, monitorVars>>

list_clients ==
    /\ ~call.pending
    /\ \E page \in Pages, page_size \in PageSizes :
         call' = Invoke("list_clients",
                        [page |-> page, page_size |-> page_size])
    /\ UNCHANGED <<clientVars, monitorVars>>

get_client ==
    /\ ~call.pending
    /\ \E client_id \in ClientIds :
         call' = Invoke("get_client",
                        [client_id |-> client_id])
    /\ UNCHANGED <<clientVars, monitorVars>>

update_client ==
    /\ ~call.pending
    /\ \E client_id \in ClientIds, name \in OptStr, description \in OptStr, domain \in OptStr :
         call' = Invoke("update_client",
                        [client_id |-> client_id, name |-> name, description |-> description, domain |-> domain])
    /\ UNCHANGED <<clientVars, monitorVars>>

delete_client ==
    /\ ~call.pending
    /\ \E client_id \in ClientIds :
         call' = Invoke("delete_client",
                        [client_id |-> client_id])
    /\ UNCHANGED <<clientVars, monitorVars>>

create_hashlist ==
    /\ ~call.pending
    /\ \E name \in Names, hash_type_id \in HashTypeIds, file_path \in FilePaths, client_id \in OptStr, file_exists \in BOOLEAN :
         call' = Invoke("create_hashlist",
                        [name |-> name, hash_type_id |-> hash_type_id, file_path |-> file_path, client_id |-> client_id, file_exists |-> file_exists])
    /\ UNCHANGED <<clientVars, monitorVars>>

list_hashlists ==
    /\ ~call.pending
    /\ \E page \in Pages, page_size \in PageSizes, client_id \in OptStr, search \in {None, Some("x")} :
         call' = Invoke("list_hashlists",
                        [page |-> page, page_size |-> page_size, client_id |-> client_id, search |-> search])
    /\ UNCHANGED <<clientVars, monitorVars>>

get_hashlist ==
    /\ ~call.pending
    /\ \E hashlist_id \in Ids :
         call' = Invoke("get_hashlist",
                        [hashlist_id |-> hashlist_id])
    /\ UNCHANGED <<clientVars, monitorVars>>

delete_hashlist ==
    /\ ~call.pending
    /\ \E hashlist_id \in Ids :
         call' = Invoke("delete_hashlist",
                        [hashlist_id |-> hashlist_id])
    /\ UNCHANGED <<clientVars, monitorVars>>

generate_voucher ==
    /\ ~call.pending
    /\ \E is_continuous \in BOOLEAN :
         call' = Invoke("generate_voucher",
                        [is_continuous |-> is_continuous])
    /\ UNCHANGED <<clientVars, monitorVars>>

list_agents ==
    /\ ~call.pending
    /\ \E page \in Pages, page_size \in PageSizes, status \in OptStr :
         call' = Invoke("list_agents",
                        [page |-> page, page_size |-> page_size, status |-> status])
    /\ UNCHANGED <<clientVars, monitorVars>>

get_agent ==
    /\ ~call.pending
    /\ \E agent_id \in Ids :
         call' = Invoke("get_agent",
                        [agent_id |-> agent_id])
    /\ UNCHANGED <<clientVars, monitorVars>>

update_agent ==
    /\ ~call.pending
    /\ \E agent_id \in Ids, name \in OptStr, extra_parameters \in OptStr, is_enabled \in OptBool :
         call' = Invoke("update_agent",
                        [agent_id |-> agent_id, name |-> name, extra_parameters |-> extra_parameters, is_enabled |-> is_enabled])
    /\ UNCHANGED <<clientVars, monitorVars>>

delete_agent ==
    /\ ~call.pending
    /\ \E agent_id \in Ids :
         call' = Invoke("delete_agent",
                        [agent_id |-> agent_id])
    /\ UNCHANGED <<clientVars, monitorVars>>

create_job ==
    /\ ~call.pending
    /\ \E name \in Names, hashlist_id \in Ids, preset_job_id \in Ids, priority \in {100}, max_agents \in {2} :
         call' = Invoke("create_job",
                        [name |-> name, hashlist_id |-> hashlist_id, preset_job_id |-> preset_job_id, priority |-> priority, max_agents |-> max_agents])
    /\ UNCHANGED <<clientVars, monitorVars>>

list_jobs ==
    /\ ~call.pending
    /\ \E page \in Pages, page_size \in PageSizes, status \in {Some("running")}, hashlist_id \in OptInt, client_id \in {None, Some("c1")} :
         call' = Invoke("list_jobs",
                        [page |-> page, page_size |-> page_size, status |-> status, hashlist_id |-> hashlist_id, client_id |-> client_id])
    /\ UNCHANGED <<clientVars, monitorVars>>

get_job ==
    /\ ~call.pending
    /\ \E job_id \in Ids :
         call' = Invoke("get_job",
                        [job_id |-> job_id])
    /\ UNCHANGED <<clientVars, monitorVars>>

update_job ==
    /\ ~call.pending
    /\ \E job_id \in Ids, name \in {None, Some("x")}, priority \in OptPriority, max_agents \in OptPriority :
         call' = Invoke("update_job",
                        [job_id |-> job_id, name |-> name, priority |-> priority, max_agents |-> max_agents])
    /\ UNCHANGED <<clientVars, monitorVars>>

get_job_layers ==
    /\ ~call.pending
    /\ \E job_id \in Ids :
         call' = Invoke("get_job_layers",
                        [job_id |-> job_id])
    /\ UNCHANGED <<clientVars, monitorVars>>

get_job_layer_tasks ==
    /\ ~call.pending
    /\ \E job_id \in Ids, layer_id \in LayerIds, page \in Pages, page_size \in PageSizes :
         call' = Invoke("get_job_layer_tasks",
                        [job_id |-> job_id, layer_id |-> layer_id, page |-> page, page_size |-> page_size])
    /\ UNCHANGED <<clientVars, monitorVars>>

list_hash_types ==
    /\ ~call.pending
    /\ \E enabled_only \in BOOLEAN :
         call' = Invoke("list_hash_types",
                        [enabled_only |-> enabled_only])
    /\ UNCHANGED <<clientVars, monitorVars>>

list_workflows ==
    /\ ~call.pending
    /\ call' = Invoke("list_workflows", EmptyDict)
    /\ UNCHANGED <<clientVars, monitorVars>>

list_preset_jobs ==
    /\ ~call.pending
    /\ call' = Invoke("list_preset_jobs", EmptyDict)
    /\ UNCHANGED <<clientVars, monitorVars>>

\* session.request / requests.post returns a response or raises a network error
Respond ==
    /\ call.pending
    /\ \E reply \in Replies : call' = Finish(call, reply)
    /\ UNCHANGED <<clientVars, monitorVars>>

Next ==
    \/ create_client \/ list_clients \/ get_client \/ update_client \/ delete_client
    \/ create_hashlist \/ list_hashlists \/ get_hashlist \/ delete_hashlist
    \/ generate_voucher \/ list_agents \/ get_agent \/ update_agent \/ delete_agent
    \/ create_job \/ list_jobs \/ get_job \/ update_job
    \/ get_job_layers \/ get_job_layer_tasks
    \/ list_hash_types \/ list_workflows \/ list_preset_jobs
    \/ Respond

Spec == Init /\ [][Next]_vars

-----------------------------------------------------------------------------
(* job_monitoring_example: the polling loop *)

MaxPolls == 4

\* faulty variant: the loop catches the exception and goes on to wait and poll again
Uncaught_Retry == "sleep"

\* an exception raised in the loop body is caught nowhere in job_monitoring_example:
\* it leaves the function
Uncaught == "error"

\* job_status['status'] in ('completed', 'failed')
Terminal(status) == status \in {"completed", "failed"}

\* faulty variant: if job_status.get('increment_mode') not in (None, 'off')
NeedsLayers_Truthy(js) == "increment_mode" \in DOMAIN js /\ js.increment_mode # "off"

\* job_status.get('increment_mode') != 'off'
NeedsLayers(js) == ~("increment_mode" \in DOMAIN js /\ js.increment_mode = "off")

\* faulty variant: only 'completed' breaks out of the loop
AfterPoll_FailedContinues(js) ==
    IF js.status = "completed" THEN "done"
    ELSE IF NeedsLayers(js) THEN "layers"
    ELSE "sleep"

\* faulty variant: 'paused' breaks out of the loop too
AfterPoll_PausedStops(js) ==
    IF js.status \in {"completed", "failed", "paused"} THEN "done"
    ELSE IF NeedsLayers(js) THEN "layers"
    ELSE "sleep"

\* where the loop body goes after a poll has been printed
AfterPoll(js) ==
    IF Terminal(js.status) THEN "done"
    ELSE IF NeedsLayers(js) THEN "layers"
    ELSE "sleep"

\* print(f"Status: {status}, Progress: {progress:.1f}%")
StatusLine(js) == Line("Status", 0, <<js.status, Get(js, "progress", 0)>>)

\* the two lines printed after the loop
Report(js) ==
    << Line("Job completed with status", 0, <<js.status>>),
       Line("Cracked", 0, <<Get(js, "cracked_count", 0), Get(js, "total_hashes", 0)>>) >>

\* the lines printed for the layers of a get_job_layers result
LayerLines(layers) ==
    LET ls == Get(layers, "layers", <<>>) IN
    [i \in 1..Len(ls) |-> Line("Layer", ls[i].id, <<ls[i].status, Get(ls[i], "progress", 0)>>)]

JobStatuses == {"pending", "running", "paused", "queued", "completed", "failed"}

\* the job objects GET /jobs/{id} answers with
JobBodies ==
    LET core == {[id |-> 7, status |-> st] : st \in JobStatuses}
        mode == core \cup {Put(j, "increment_mode", m) : j \in core, m \in {"off", "increment"}}
    IN  mode \cup {Put(Put(Put(j, "progress", 50), "cracked_count", c), "total_hashes", 5) :
                   j \in mode, c \in {1, 2}}

Failures ==
    { NetFail,
      Response(404, "{error:gone,code:NOT_FOUND}",
               JsonObject([error |-> "gone", code |-> "NOT_FOUND"])),
      Response(500, "<html>oops</html>", NoJson),
      Response(200, "<html>oops</html>", NoJson),
      Response(200, "[]", JsonArray) }

JobReplies == Failures \cup {Response(200, "{job}", JsonObject(j)) : j \in JobBodies}

LayerReplies ==
    Failures \cup
    { Response(200, "{}", JsonObject(EmptyDict)),
      Response(200, "{layers}",
               JsonObject([layers |-> << [id |-> 12, status |-> "running", progress |-> 10],
                                         [id |-> 13, status |-> "pending"] >>])) }

\* how the example constructs its client, and the job create_job returned
MonitorInit ==
    /\ Constructed([base_url |-> <<"http://localhost:31337", Slash, "api", Slash, "v1">>,
                    email |-> "user@example.com",
                    api_key |-> "your-64-character-api-key-here"])
    /\ pc = "poll"
    /\ job \in {[id |-> 7]}
    /\ job_status = EmptyDict
    /\ poll_calls = 0
    /\ polled = <<>>
    /\ layer_calls = 0
    /\ waits = 0
    /\ stdout = <<>>

\* job_status = client.get_job(job['id']); print; break on a terminal status
monitor_get_job ==
    /\ pc = "poll"
    /\ poll_calls < MaxPolls
    /\ \E reply \in JobReplies :
         LET r == get_job_call(job.id, reply) IN
         /\ call' = [op |-> "get_job", args |-> [job_id |-> job.id], pending |-> FALSE] @@ r
         /\ poll_calls' = poll_calls + 1
         /\ IF ~r.returned
            THEN /\ pc' = Uncaught
                 /\ stdout' = <<>>
                 /\ UNCHANGED <<job_status, polled, layer_calls, waits>>
            ELSE IF ~r.value[1].isdict \/ "status" \notin DOMAIN r.value[1].v
            THEN \* job_status['status'] raises
                 /\ pc' = Uncaught
                 /\ stdout' = <<>>
                 /\ job_status' = r.value[1].v
                 /\ UNCHANGED <<polled, layer_calls, waits>>
            ELSE LET js == r.value[1].v IN
                 /\ job_status' = js
                 /\ polled' = Append(polled, js.status)
                 /\ layer_calls' = 0
                 /\ waits' = 0
                 /\ pc' = AfterPoll(js)
                 /\ stdout' = <<StatusLine(js)>> \o
                              (IF AfterPoll(js) = "done" THEN Report(js) ELSE <<>>)
    /\ UNCHANGED <<clientVars, job>>

\* layers = client.get_job_layers(job['id']); print each layer
monitor_get_job_layers ==
    /\ pc = "layers"
    /\ \E reply \in LayerReplies :
         LET r == get_job_layers_call(job.id, reply) IN
         /\ call' = [op |-> "get_job_layers", args |-> [job_id |-> job.id],
                     pending |-> FALSE] @@ r
         /\ layer_calls' = layer_calls + 1
         /\ IF ~r.returned \/ ~r.value[1].isdict
            THEN \* the call raised, or layers.get raises
                 /\ pc' = Uncaught
                 /\ stdout' = <<>>
            ELSE /\ pc' = "sleep"
                 /\ stdout' = LayerLines(r.value[1].v)
    /\ UNCHANGED <<clientVars, job, job_status, poll_calls, polled, waits>>

\* time.sleep(10)
monitor_sleep ==
    /\ pc = "sleep"
    /\ waits' = waits + 1
    /\ pc' = "poll"
    /\ stdout' = <<>>
    /\ UNCHANGED <<clientVars, call, job, job_status, poll_calls, polled, layer_calls>>

MonitorNext == monitor_get_job \/ monitor_get_job_layers \/ monitor_sleep

MonitorSpec == MonitorInit /\ [][MonitorNext]_vars

-----------------------------------------------------------------------------
(* The claims about the Job Monitor, checked under MonitorSpec *)

IsFinal(status) == status \in {"completed", "failed"}
ModeOff(js) == "increment_mode" \in DOMAIN js /\ js.increment_mode = "off"
LastPolled == polled[Len(polled)]
\* the latest get_job or get_job_layers call of the monitor failed
CallFailed == call.op \in {"get_job", "get_job_layers"} /\ call.exc # NoExc
Reported == \E i \in DOMAIN stdout : stdout[i].tag \in {"Cracked", "Job completed with status"}

\* C1: the monitor stops exactly at the first terminal status: once the loop has ended
\* it has issued as many get_job calls as statuses were returned, the last status is
\* terminal and no earlier one is, nothing more can run, and the report printed holds
\* cracked_count/total_hashes of the final poll's response; and a terminal status
\* never leaves the loop running.
C1_PollCount ==
    /\ pc = "done" =>
         /\ poll_calls = Len(polled)
         /\ IsFinal(LastPolled)
         /\ \A i \in 1..(Len(polled) - 1) : ~IsFinal(polled[i])
         /\ call.op = "get_job" /\ call.returned /\ job_status = call.value[1].v
         /\ stdout[Len(stdout)] =
              Line("Cracked", 0, << IF "cracked_count" \in DOMAIN call.response.json.v
                                    THEN call.response.json.v.cracked_count ELSE 0,
                                    IF "total_hashes" \in DOMAIN call.response.json.v
                                    THEN call.response.json.v.total_hashes ELSE 0 >>)
         /\ ~ENABLED MonitorNext
    /\ (polled # <<>> /\ IsFinal(LastPolled)) => pc = "done"

\* the scenario pending, running, running, completed: 4 polls, then the report
C1_Witness ==
    /\ pc = "done"
    /\ polled = <<"pending", "running", "running", "completed">>
    /\ poll_calls = 4
    /\ stdout[Len(stdout)] = Line("Cracked", 0, <<2, 5>>)

\* the get_job_layers calls that must follow the latest poll
LayersDue == IF IsFinal(job_status.status) \/ ModeOff(job_status) THEN 0 ELSE 1

\* C2: a poll that is not terminal and whose increment_mode is not "off" is followed by
\* exactly one get_job_layers call before the next poll; a poll whose increment_mode is
\* "off", and a poll that observes a terminal status, is followed by none.
C2_LayerCalls ==
    /\ (pc \in {"sleep", "poll"} /\ polled # <<>>) => layer_calls = LayersDue
    /\ pc = "layers" => (layer_calls = 0 /\ LayersDue = 1)
    /\ pc = "done" => layer_calls = 0
    /\ (pc = "error" /\ "status" \in DOMAIN job_status) => layer_calls <= LayersDue

C2_Witness ==
    /\ pc = "poll"
    /\ Len(polled) = 2
    /\ "increment_mode" \notin DOMAIN job_status
    /\ layer_calls = 1

\* C3: when a get_job or get_job_layers call of the monitor fails, the monitor is over:
\* the completion report is not printed, and no call, wait or print follows.
C3_FailureEnds ==
    /\ [](CallFailed => (pc = "error" /\ ~Reported))
    /\ [][CallFailed => UNCHANGED vars]_vars

C3_Witness ==
    /\ CallFailed
    /\ call.op = "get_job_layers"
    /\ call.exc = [type |-> "HTTPError", status_code |-> 404]
    /\ poll_calls = 2
    /\ pc = "error"

\* C10: the loop ends normally exactly when the latest status polled is completed or
\* failed; after any other status there is exactly one wait before the next poll, which
\* nothing but the number of polls explored here holds back; no wait follows a
\* terminal status.
C10_ExitCondition ==
    /\ pc = "done" <=> (polled # <<>> /\ IsFinal(LastPolled))
    /\ pc \in {"layers", "sleep", "done"} => waits = 0
    /\ (pc = "poll" /\ polled # <<>>) => waits = 1
    /\ pc = "error" => waits <= 1
    /\ pc = "sleep" => ENABLED monitor_sleep
    /\ (pc = "poll" /\ poll_calls < MaxPolls) => ENABLED monitor_get_job

C10_Witness ==
    /\ pc = "poll"
    /\ polled = <<"paused", "queued", "running">>
    /\ waits = 1

-----------------------------------------------------------------------------
(* The claims about the gateway operations, checked under Spec *)

Finished == call.op # "" /\ ~call.pending
Answered == Finished /\ call.response.received
Is2xx(status) == 200 <= status /\ status < 300
Is4xx5xx(status) == 400 <= status /\ status < 600
DeleteOps == {"delete_client", "delete_hashlist", "delete_agent"}
Body == call.response.json
IsEnvelope(j) == j.valid /\ j.isdict /\ {"error", "code"} \subseteq DOMAIN j.v
\* what the failed operation reported as its message and as its code
ReportedMessage ==
    {call.stderr[i].text : i \in {k \in DOMAIN call.stderr : call.stderr[k].tag # "Error Code"}}
ReportedCode ==
    {call.stderr[i].text : i \in {k \in DOMAIN call.stderr : call.stderr[k].tag = "Error Code"}}

\* C4 as claimed, for the 4xx and 5xx responses every operation fails on: the error
\* envelope's message and code are what the failure reports, and a body that is not
\* JSON is reported with the code "UNKNOWN" and the raw text as message.
C4_Original ==
    (Answered /\ Is4xx5xx(call.response.status_code)) =>
        /\ call.exc = [type |-> "HTTPError", status_code |-> call.response.status_code]
        /\ IsEnvelope(Body) =>
             (ReportedMessage = {Body.v.error} /\ ReportedCode = {Body.v.code})
        /\ ~Body.valid =>
             (ReportedMessage = {call.response.text} /\ ReportedCode = {"UNKNOWN"})

\* C4, amended: a 4xx or 5xx response makes the operation raise an HTTPError that holds
\* the status code only.  What is written to stderr first: for a JSON object, its error
\* (default "Unknown error") and, except in create_hashlist, its code (default
\* "UNKNOWN"); for any other body, the status and the raw text, and no code.  A
\* response below 400 is no failure and writes nothing.
C4_ErrorTranslation ==
    Answered =>
        IF Is4xx5xx(call.response.status_code)
        THEN /\ call.exc = [type |-> "HTTPError", status_code |-> call.response.status_code]
             /\ ~call.returned
             /\ IF Body.valid /\ Body.isdict
                THEN /\ ReportedMessage =
                          {IF "error" \in DOMAIN Body.v THEN Body.v.error ELSE "Unknown error"}
                     /\ ReportedCode =
                          IF call.op = "create_hashlist" THEN {}
                          ELSE {IF "code" \in DOMAIN Body.v THEN Body.v.code ELSE "UNKNOWN"}
                ELSE /\ call.stderr = << [tag |-> "HTTP",
                                          status |-> call.response.status_code,
                                          text |-> call.response.text] >>
                     /\ ReportedCode = {}
        ELSE call.stderr = <<>> /\ call.exc.type # "HTTPError"

C4_Witness ==
    /\ Answered
    /\ call.op = "get_client"
    /\ call.response.status_code = 400
    /\ Body = JsonObject([error |-> "gone", code |-> "NOT_FOUND"])
    /\ ReportedCode = {"NOT_FOUND"}
    /\ call.exc.type = "HTTPError"

\* C5 as claimed, its failure half: every response outside 2xx makes the operation
\* fail, with no payload returned.
C5_Original ==
    (Answered /\ ~Is2xx(call.response.status_code)) => (~call.returned /\ call.exc # NoExc)

\* C5, amended: the operation fails on every 4xx and 5xx response and returns no
\* payload; every other response (2xx, and 3xx too) counts as success: a delete returns
\* nothing, any other operation returns the decoded JSON body, or raises the decoding
\* error when the body is not JSON.  Without a response nothing is returned.
C5_SuccessBoundary ==
    Finished =>
        IF ~call.response.received THEN ~call.returned /\ call.exc # NoExc
        ELSE IF Is4xx5xx(call.response.status_code)
        THEN ~call.returned /\ call.value = None /\ call.exc.type = "HTTPError"
        ELSE IF call.op \in DeleteOps
        THEN call.returned /\ call.value = None /\ call.exc = NoExc
        ELSE IF Body.valid
        THEN call.returned /\ call.value = Some(Body) /\ call.exc = NoExc
        ELSE ~call.returned /\ call.value = None /\ call.exc.type = "JSONDecodeError"

C5_Witness ==
    /\ Answered
    /\ call.op = "get_hashlist"
    /\ call.response.status_code = 304
    /\ call.returned
    /\ call.value = Some(JsonObject([id |-> 1]))

\* the JSON body of the request the operation sent
SentJson == call.sent[1].json[1]
Given(x) == x # None
GivenNonEmpty(x) == x # None /\ x[1] # ""
\* field f is in the JSON body exactly when `present`, and then with the value passed
Shaped(f, present) ==
    /\ f \in DOMAIN SentJson <=> present
    /\ f \in DOMAIN SentJson => SentJson[f] = call.args[f][1]

\* C6 as claimed: in create_client, update_client and update_agent each of the
\* optional fields is in the body exactly when a value other than None was passed.
C6_Original ==
    /\ call.op \in {"create_client", "update_client"} =>
         /\ Shaped("description", Given(call.args.description))
         /\ Shaped("domain", Given(call.args.domain))
    /\ call.op = "update_agent" =>
         /\ Shaped("extra_parameters", Given(call.args.extra_parameters))
         /\ Shaped("is_enabled", Given(call.args.is_enabled))

\* C6, amended: update_client and update_agent send description, domain,
\* extra_parameters and is_enabled exactly when a value other than None was passed (so
\* '' and False are sent); create_client sends description and domain exactly when a
\* non-empty string was passed (so '' is dropped).  A field not sent is absent, not null.
C6_PayloadShaping ==
    /\ call.op = "create_client" =>
         /\ Shaped("description", GivenNonEmpty(call.args.description))
         /\ Shaped("domain", GivenNonEmpty(call.args.domain))
    /\ call.op = "update_client" =>
         /\ Shaped("description", Given(call.args.description))
         /\ Shaped("domain", Given(call.args.domain))
    /\ call.op = "update_agent" =>
         /\ Shaped("extra_parameters", Given(call.args.extra_parameters))
         /\ Shaped("is_enabled", Given(call.args.is_enabled))

C6_Witness ==
    /\ call.op = "update_agent"
    /\ call.args.is_enabled = Some(FALSE)
    /\ call.args.extra_parameters = Some("")
    /\ call.args.name = None
    /\ SentJson = [extra_parameters |-> "", is_enabled |-> FALSE]

\* the upload request create_hashlist sent
Upload == call.sent[1]
Uploaded == call.op = "create_hashlist" /\ call.sent # <<>>
\* the decimal text of the hash type ids used
Decimal(n) == IF n = 0 THEN <<"0">> ELSE <<"1", "0", "0", "0">>
UploadShape(with_client_id) ==
    /\ \A h \in DOMAIN Upload.headers :
         h \in {"Content-Type", "content-type"} => Upload.headers[h] # "application/json"
    /\ Upload.json = None
    /\ {"name", "hash_type_id"} \subseteq DOMAIN Upload.data[1]
    /\ Upload.data[1].name = call.args.name
    /\ Upload.data[1].hash_type_id = Decimal(call.args.hash_type_id)
    /\ "client_id" \in DOMAIN Upload.data[1] <=> with_client_id
    /\ "client_id" \in DOMAIN Upload.data[1] => Upload.data[1].client_id = call.args.client_id[1]

\* C7 as claimed: client_id is a form field exactly when the caller passed one.
C7_Original == Uploaded => UploadShape(Given(call.args.client_id))

\* C7, amended: the upload carries no Content-Type: application/json, its form fields
\* always hold name and the decimal text of hash_type_id, and they hold client_id
\* exactly when the caller passed a non-empty client_id ('' is dropped like None).
C7_MultipartShape == Uploaded => UploadShape(GivenNonEmpty(call.args.client_id))

C7_Witness ==
    /\ Uploaded
    /\ call.args.hash_type_id = 1000
    /\ Upload.data[1] = [name |-> "acme", hash_type_id |-> <<"1", "0", "0", "0">>,
                         client_id |-> "x"]
    /\ Upload.headers["Content-Type"] = "multipart/form-data"

\* C8: every request sent, through the session or by the upload, carries X-User-Email
\* and X-API-Key with the values given at construction, and the stored headers and base
\* URL stay what the constructor made them.
C8_IdentityHeaders ==
    /\ \A i \in DOMAIN call.sent :
         /\ {"X-User-Email", "X-API-Key"} \subseteq DOMAIN call.sent[i].headers
         /\ call.sent[i].headers["X-User-Email"] = ctor.email
         /\ call.sent[i].headers["X-API-Key"] = ctor.api_key
    /\ session_headers["X-User-Email"] = ctor.email
    /\ session_headers["X-API-Key"] = ctor.api_key
    /\ base_url = <<"http://h", Slash, "api", Slash, "v1">>

C8_Witness ==
    /\ Answered
    /\ call.op = "create_hashlist"
    /\ Len(call.sent) = 1
    /\ ctor.api_key = "key-2"
    /\ call.sent[1].headers["X-API-Key"] = "key-2"

\* C9 as claimed: every invocation issues exactly one request.
C9_Original == Finished => Len(call.sent) = 1

\* C9, amended: every invocation issues exactly one request, whether it ends in success,
\* an HTTP error or a network failure, except that create_hashlist issues none when the
\* file cannot be opened; no invocation issues more than one.
C9_OneExchange ==
    Finished =>
        IF call.op = "create_hashlist" /\ ~call.args.file_exists
        THEN call.sent = <<>> /\ call.exc.type = "FileNotFoundError"
        ELSE Len(call.sent) = 1

C9_Witness ==
    /\ Finished
    /\ call.op = "update_job"
    /\ call.exc.type = "ConnectionError"
    /\ Len(call.sent) = 1

=============================================================================
